---- MODULE Spec2Model ----
(***************************************************************************)
(* Model of the GPT-BigCode loader and forward pass                        *)
(* (candle-examples/examples/bigcode/model.rs) and of the Linear layers    *)
(* (src/nn/layers/linear.rs).                                              *)
(*                                                                         *)
(* Tensors read from the parameter store are records [shape, val]; the     *)
(* forward pass is modelled on shapes, the Linear layers on small integer  *)
(* matrices.  Every fallible call returns a record [tag, val, log]: tag is *)
(* "Ok", "Err" or "Panic", val the value or the error, log the sequence of *)
(* parameter fetches the call made, in order.                              *)
(***************************************************************************)
EXTENDS Integers, Sequences, FiniteSets, TLC

VARIABLES cfg, store, loaded, lnCall, fwdCall, linCall

vars == <<cfg, store, loaded, lnCall, fwdCall, linCall>>

\* ------------------------------------------------------------------ bounds
MaxVocab == 2
MaxLayers == 2
MaxHidden == 3
MaxHeads == 2
MaxBatch == 2
MaxSeq == 2
MaxDim == 2
MaxEntry == 1

\* ------------------------------------------------------------- results
None == [tag |-> "None"]
Some(v) == [tag |-> "Some", val |-> v]
NoCall == [tag |-> "NoCall"]

Ok(v, log) == [tag |-> "Ok", val |-> v, log |-> log]
Err(e, log) == [tag |-> "Err", val |-> e, log |-> log]
Panic(msg, log) == [tag |-> "Panic", val |-> msg, log |-> log]

\* r? followed by the rest of the function: an Err or a panic of r ends the
\* function with it; otherwise F continues with r's value, and the fetches of
\* both are kept in order.
Try(r, F(_)) ==
  CHOOSE out \in
    {IF x.tag # "Ok" THEN x
     ELSE CHOOSE o \in {[y EXCEPT !.log = x.log \o @] : y \in {F(x.val)}} : TRUE
     : x \in {r}} : TRUE

\* ------------------------------------------------------ parameter store
\* vb.pp(name): the prefix extended by one path component, joined by ".".
VbPP(vb, name) == IF vb = "" THEN name ELSE vb \o "." \o name

\* vb.get(shape, name): the tensor stored at the path, an error when the path
\* is absent or the stored shape differs from the requested one.
VbGet(st, vb, shape, name) ==
  LET path == VbPP(vb, name)
      log == <<[path |-> path, shape |-> shape]>>
  IN IF path \notin DOMAIN st
       THEN Err([kind |-> "MissingParameter", path |-> path], log)
       ELSE IF st[path].shape # shape
              THEN Err([kind |-> "ShapeMismatch", path |-> path], log)
              ELSE Ok(st[path], log)

\* ------------------------------------------------------------- loaders
LinearNew(weight, bias) == [weight |-> weight, bias |-> bias]
EmbeddingNew(embeddings, hidden_size) ==
  [embeddings |-> embeddings, hidden_size |-> hidden_size]
LayerNormNew(weight, bias, eps) == [weight |-> weight, bias |-> bias, eps |-> eps]

\* linear as it would be if the bias were fetched before the weight's result
\* is looked at.
linear_eager_bias(size1, size2, bias, st, vb) ==
  LET w == VbGet(st, vb, <<size2, size1>>, "weight")
      b == VbGet(st, vb, <<size2>>, "bias")
  IN IF bias
       THEN IF w.tag # "Ok" THEN Err(w.val, w.log \o b.log)
            ELSE IF b.tag # "Ok" THEN Err(b.val, w.log \o b.log)
            ELSE Ok(LinearNew(w.val, Some(b.val)), w.log \o b.log)
       ELSE IF w.tag # "Ok" THEN w ELSE Ok(LinearNew(w.val, None), w.log)

\* fn linear(size1, size2, bias, vb)
linear(size1, size2, bias, st, vb) ==
  Try(VbGet(st, vb, <<size2, size1>>, "weight"), LAMBDA weight :
    IF bias
      THEN Try(VbGet(st, vb, <<size2>>, "bias"), LAMBDA b :
             Ok(LinearNew(weight, Some(b)), <<>>))
      ELSE Ok(LinearNew(weight, None), <<>>))

\* fn embedding(vocab_size, hidden_size, vb)
embedding(vocab_size, hidden_size, st, vb) ==
  Try(VbGet(st, vb, <<vocab_size, hidden_size>>, "weight"), LAMBDA embeddings :
    Ok(EmbeddingNew(embeddings, hidden_size), <<>>))

\* layer_norm as it would be if the fallback's error replaced the original.
layer_norm_fallback_error(size, eps, st, vb) ==
  LET w == VbGet(st, vb, <<size>>, "weight")
      b == VbGet(st, vb, <<size>>, "bias")
      g == VbGet(st, vb, <<size>>, "gamma")
      be == VbGet(st, vb, <<size>>, "beta")
      err == IF g.tag = "Err" THEN g.val ELSE be.val
  IN IF w.tag = "Ok" /\ b.tag = "Ok"
       THEN Ok(LayerNormNew(w.val, b.val, eps), w.log \o b.log)
       ELSE IF g.tag = "Ok" /\ be.tag = "Ok"
              THEN Ok(LayerNormNew(g.val, be.val, eps),
                      w.log \o b.log \o g.log \o be.log)
              ELSE Err(err, w.log \o b.log \o g.log \o be.log)

\* layer_norm as it would be if the fallback took beta for the scale.
layer_norm_swapped(size, eps, st, vb) ==
  LET w == VbGet(st, vb, <<size>>, "weight")
      b == VbGet(st, vb, <<size>>, "bias")
      g == VbGet(st, vb, <<size>>, "gamma")
      be == VbGet(st, vb, <<size>>, "beta")
      err == IF w.tag = "Err" THEN w.val ELSE b.val
  IN IF w.tag = "Ok" /\ b.tag = "Ok"
       THEN Ok(LayerNormNew(w.val, b.val, eps), w.log \o b.log)
       ELSE IF g.tag = "Ok" /\ be.tag = "Ok"
              THEN Ok(LayerNormNew(be.val, g.val, eps),
                      w.log \o b.log \o g.log \o be.log)
              ELSE Err(err, w.log \o b.log \o g.log \o be.log)

\* fn layer_norm(size, eps, vb): both fetches of a pair are made before the
\* pair is matched; the error kept is the first of the primary pair.
layer_norm(size, eps, st, vb) ==
  LET w == VbGet(st, vb, <<size>>, "weight")
      b == VbGet(st, vb, <<size>>, "bias")
      g == VbGet(st, vb, <<size>>, "gamma")
      be == VbGet(st, vb, <<size>>, "beta")
      err == IF w.tag = "Err" THEN w.val ELSE b.val
  IN IF w.tag = "Ok" /\ b.tag = "Ok"
       THEN Ok(LayerNormNew(w.val, b.val, eps), w.log \o b.log)
       ELSE IF g.tag = "Ok" /\ be.tag = "Ok"
              THEN Ok(LayerNormNew(g.val, be.val, eps),
                      w.log \o b.log \o g.log \o be.log)
              ELSE Err(err, w.log \o b.log \o g.log \o be.log)

\* ------------------------------------------------------ module loaders
\* let kv_heads = if cfg.multi_query { 1 } else { cfg.num_attention_heads }
KvHeads(c) == IF c.multi_query THEN 1 ELSE c.num_attention_heads

\* let head_dim = hidden_size / cfg.num_attention_heads (usize division)
HeadDim(c) == c.hidden_size \div c.num_attention_heads

\* let kv_dim = kv_heads * head_dim
KvDim(c) == KvHeads(c) * HeadDim(c)

\* Attention::load: the division panics when num_attention_heads is 0.
AttentionLoad(st, vb, c) ==
  IF c.num_attention_heads = 0
    THEN Panic("attempt to divide by zero", <<>>)
    ELSE Try(linear(c.hidden_size, c.hidden_size + 2 * KvDim(c), TRUE,
                    st, VbPP(vb, "c_attn")), LAMBDA c_attn :
         Try(linear(c.hidden_size, c.hidden_size, TRUE,
                    st, VbPP(vb, "c_proj")), LAMBDA c_proj :
         Ok([c_attn |-> c_attn, c_proj |-> c_proj], <<>>)))

\* Mlp::load
MlpLoad(inner_dim, st, vb, c) ==
  Try(linear(c.hidden_size, inner_dim, TRUE, st, VbPP(vb, "c_fc")), LAMBDA c_fc :
  Try(linear(inner_dim, c.hidden_size, TRUE, st, VbPP(vb, "c_proj")), LAMBDA c_proj :
  Ok([c_fc |-> c_fc, c_proj |-> c_proj], <<>>)))

\* cfg.n_inner.unwrap_or(4 * hidden_size)
InnerDim(c) == IF c.n_inner.tag = "Some" THEN c.n_inner.val ELSE 4 * c.hidden_size

\* Block::load: ln_1, attn, ln_2, mlp, each ending the load when it fails.
BlockLoad(st, vb, c) ==
  Try(layer_norm(c.hidden_size, c.layer_norm_epsilon, st, VbPP(vb, "ln_1")),
      LAMBDA ln_1 :
  Try(AttentionLoad(st, VbPP(vb, "attn"), c), LAMBDA attn :
  Try(layer_norm(c.hidden_size, c.layer_norm_epsilon, st, VbPP(vb, "ln_2")),
      LAMBDA ln_2 :
  Try(MlpLoad(InnerDim(c), st, VbPP(vb, "mlp"), c), LAMBDA mlp :
  Ok([ln_1 |-> ln_1, attn |-> attn, ln_2 |-> ln_2, mlp |-> mlp], <<>>)))))

\* (0..cfg.num_hidden_layers).map(|i| Block::load(vb.pp("h.{i}"), &cfg))
\*     .collect::<Result<Vec<_>>>(): blocks are loaded in index order and the
\* first failure ends the iteration.
RECURSIVE BlocksLoad(_, _, _, _, _)
BlocksLoad(st, vb, c, i, blocks) ==
  IF i >= c.num_hidden_layers THEN Ok(blocks, <<>>)
  ELSE Try(BlockLoad(st, VbPP(vb, "h." \o ToString(i)), c), LAMBDA block :
         BlocksLoad(st, vb, c, i + 1, Append(blocks, block)))

\* GPTBigCode::load
GPTBigCodeLoad(st, vb, c) ==
  Try(embedding(c.vocab_size, c.hidden_size, st, VbPP(vb, "wte")), LAMBDA wte :
  Try(embedding(c.max_position_embeddings, c.hidden_size, st, VbPP(vb, "wpe")),
      LAMBDA wpe :
  Try(BlocksLoad(st, vb, c, 0, <<>>), LAMBDA blocks :
  Try(layer_norm(c.hidden_size, c.layer_norm_epsilon, st, VbPP(vb, "ln_f")),
      LAMBDA ln_f :
  Try(linear(c.hidden_size, c.vocab_size, FALSE, st, VbPP(vb, "lm_head")),
      LAMBDA lm_head :
  Ok([wte |-> wte, wpe |-> wpe, blocks |-> blocks, ln_f |-> ln_f,
      lm_head |-> lm_head, config |-> c], <<>>))))))

\* =========================================================================
\* Specification SpecNorm: layer_norm called on an arbitrary store holding
\* any of the four names at one path.
\* =========================================================================
NormNames == {"weight", "bias", "gamma", "beta"}
NormPrefix == "ln_f"
NormPaths == {VbPP(NormPrefix, n) : n \in NormNames}
EpsValues == {"1e-5", "1e-12"}
NormTensors == [shape : {<<n>> : n \in 1..MaxDim}, val : {"s", "t"}]
NormStores == UNION {[P -> NormTensors] : P \in SUBSET NormPaths}

InitNorm ==
  /\ store \in NormStores
  /\ cfg = None
  /\ loaded = NoCall
  /\ lnCall = NoCall
  /\ fwdCall = NoCall
  /\ linCall = NoCall

LayerNormCall ==
  /\ lnCall = NoCall
  /\ \E size \in 1..MaxDim, eps \in EpsValues :
       lnCall' = [size |-> size, eps |-> eps,
                  out |-> layer_norm(size, eps, store, NormPrefix)]
  /\ UNCHANGED <<cfg, store, loaded, fwdCall, linCall>>

NextNorm == LayerNormCall

SpecNorm == InitNorm /\ [][NextNorm]_vars

\* --- C1 ---
NormPresent(name) ==
  /\ VbPP(NormPrefix, name) \in DOMAIN store
  /\ store[VbPP(NormPrefix, name)].shape = <<lnCall.size>>
NormError(name) ==
  [kind |-> IF VbPP(NormPrefix, name) \in DOMAIN store
              THEN "ShapeMismatch" ELSE "MissingParameter",
   path |-> VbPP(NormPrefix, name)]
NormFetched == [i \in DOMAIN lnCall.out.log |-> lnCall.out.log[i].path]
NormOf(scale, shift) ==
  [weight |-> store[VbPP(NormPrefix, scale)],
   bias |-> store[VbPP(NormPrefix, shift)],
   eps |-> lnCall.eps]

\* C1: layer_norm fetches "weight" and "bias" first; when both are present it
\* yields them; when either fails it fetches "gamma" and "beta" and yields
\* those when both are present; when the fallback fails too the call fails
\* with the error of the failed "weight" fetch, or of the "bias" fetch when
\* only "bias" failed, never with an error about gamma or beta, and never
\* yields a layer without stored parameters.
C1_FallbackOriginalError ==
  lnCall # NoCall =>
    LET primary == NormPresent("weight") /\ NormPresent("bias")
        fallback == NormPresent("gamma") /\ NormPresent("beta")
        out == lnCall.out
    IN /\ out.tag \in {"Ok", "Err"}
       /\ primary =>
            /\ out.tag = "Ok" /\ out.val = NormOf("weight", "bias")
            /\ NormFetched = <<VbPP(NormPrefix, "weight"), VbPP(NormPrefix, "bias")>>
       /\ ~primary =>
            NormFetched = <<VbPP(NormPrefix, "weight"), VbPP(NormPrefix, "bias"),
                            VbPP(NormPrefix, "gamma"), VbPP(NormPrefix, "beta")>>
       /\ (~primary /\ fallback) =>
            out.tag = "Ok" /\ out.val = NormOf("gamma", "beta")
       /\ (~primary /\ ~fallback) =>
            /\ out.tag = "Err"
            /\ out.val = IF NormPresent("weight") THEN NormError("bias")
                         ELSE NormError("weight")

\* The fallback is tried and fails: bias is missing, gamma is present, beta is not.
C1_Witness ==
  /\ lnCall # NoCall
  /\ NormPresent("weight") /\ ~NormPresent("bias")
  /\ NormPresent("gamma") /\ ~NormPresent("beta")
  /\ lnCall.out.tag = "Err"
  /\ lnCall.out.val.path = VbPP(NormPrefix, "bias")

\* --- C2 ---
OnlyPair(scale, shift, s, t) ==
  /\ DOMAIN store = {VbPP(NormPrefix, scale), VbPP(NormPrefix, shift)}
  /\ store[VbPP(NormPrefix, scale)] = s
  /\ store[VbPP(NormPrefix, shift)] = t

\* C2: for every size, epsilon and tensors s, t of the requested shape, a store
\* holding only {weight = s, bias = t} and a store holding only
\* {gamma = s, beta = t} both make layer_norm succeed with the same layer:
\* scale s, shift t and the epsilon given.
C2_NamingEquivalence ==
  lnCall # NoCall =>
    \A s, t \in NormTensors :
      (/\ s.shape = <<lnCall.size>>
       /\ t.shape = <<lnCall.size>>
       /\ \/ OnlyPair("weight", "bias", s, t)
          \/ OnlyPair("gamma", "beta", s, t))
      => /\ lnCall.out.tag = "Ok"
         /\ lnCall.out.val = LayerNormNew(s, t, lnCall.eps)

\* A store with only gamma and beta, distinct tensors, loaded through the fallback.
C2_Witness ==
  /\ lnCall # NoCall
  /\ DOMAIN store = {VbPP(NormPrefix, "gamma"), VbPP(NormPrefix, "beta")}
  /\ store[VbPP(NormPrefix, "gamma")].val = "s"
  /\ store[VbPP(NormPrefix, "beta")].val = "t"
  /\ lnCall.out.tag = "Ok"
  /\ lnCall.out.val.weight.val = "s"

\* =========================================================================
\* Specification Spec: GPTBigCode::load on a configuration and a checkpoint.
\* =========================================================================
Configs ==
  [vocab_size : {MaxVocab},
   max_position_embeddings : {MaxSeq},
   num_hidden_layers : 0..MaxLayers,
   hidden_size : (MaxHidden - 1)..MaxHidden,
   layer_norm_epsilon : {"1e-5"},
   n_inner : {None},
   num_attention_heads : 0..MaxHeads,
   multi_query : BOOLEAN]

\* The parameters GPTBigCode::load reads, in the order it reads them: a unit is
\* one tensor ("get"), one normalization layer ("norm", either naming), or the
\* point where the head-dimension division has no result ("panic").
GetUnit(path, shape) == [kind |-> "get", path |-> path, shape |-> shape]
NormUnit(prefix, size) == [kind |-> "norm", path |-> prefix, shape |-> <<size>>]
PanicUnit == [kind |-> "panic", path |-> "", shape |-> <<>>]

LinearUnits(prefix, in, out, bias) ==
  <<GetUnit(prefix \o ".weight", <<out, in>>)>>
    \o (IF bias THEN <<GetUnit(prefix \o ".bias", <<out>>)>> ELSE <<>>)

BlockUnits(c, i) ==
  LET h == "h." \o ToString(i)
  IN <<NormUnit(h \o ".ln_1", c.hidden_size)>>
       \o (IF c.num_attention_heads = 0 THEN <<PanicUnit>>
           ELSE LinearUnits(h \o ".attn.c_attn", c.hidden_size,
                            c.hidden_size + 2 * KvDim(c), TRUE)
                  \o LinearUnits(h \o ".attn.c_proj", c.hidden_size, c.hidden_size, TRUE)
                  \o <<NormUnit(h \o ".ln_2", c.hidden_size)>>
                  \o LinearUnits(h \o ".mlp.c_fc", c.hidden_size, InnerDim(c), TRUE)
                  \o LinearUnits(h \o ".mlp.c_proj", InnerDim(c), c.hidden_size, TRUE))

RECURSIVE BlocksUnits(_, _)
BlocksUnits(c, n) == IF n = 0 THEN <<>> ELSE BlocksUnits(c, n - 1) \o BlockUnits(c, n - 1)

Plan(c) ==
  <<GetUnit("wte.weight", <<c.vocab_size, c.hidden_size>>),
    GetUnit("wpe.weight", <<c.max_position_embeddings, c.hidden_size>>)>>
    \o BlocksUnits(c, c.num_hidden_layers)
    \o <<NormUnit("ln_f", c.hidden_size)>>
    \o LinearUnits("lm_head", c.hidden_size, c.vocab_size, FALSE)

Namings == {"weight_bias", "gamma_beta", "both"}
UnitNames(u, naming) ==
  IF u.kind = "get" THEN {u.path}
  ELSE IF u.kind = "panic" THEN {}
  ELSE (IF naming # "gamma_beta" THEN {u.path \o ".weight", u.path \o ".bias"} ELSE {})
         \cup (IF naming # "weight_bias" THEN {u.path \o ".gamma", u.path \o ".beta"} ELSE {})

\* A checkpoint holding every tensor the plan names, under the given naming.
FullStore(c, naming) ==
  LET plan == Plan(c)
      paths == UNION {UnitNames(plan[k], naming) : k \in DOMAIN plan}
      unitOf(p) == CHOOSE k \in DOMAIN plan : p \in UnitNames(plan[k], naming)
  IN [p \in paths |-> [shape |-> plan[unitOf(p)].shape, val |-> p]]

WrongShape(shape) == [shape EXCEPT ![1] = @ + 1]

\* The full checkpoint, with one tensor absent or of another shape, or with two
\* tensors absent.
Damage(st, p, kind) ==
  IF kind = "absent" THEN [q \in DOMAIN st \ {p} |-> st[q]]
  ELSE [st EXCEPT ![p].shape = WrongShape(@)]
Stores(c) ==
  UNION {LET full == FullStore(c, naming)
         IN {full}
              \cup {Damage(full, p, k) : p \in DOMAIN full, k \in {"absent", "shape"}}
              \cup {Damage(Damage(full, p, "absent"), q, "absent") :
                      p \in DOMAIN full, q \in DOMAIN full}
         : naming \in Namings}

Init ==
  /\ cfg \in Configs
  /\ store \in Stores(cfg)
  /\ loaded = NoCall
  /\ lnCall = NoCall
  /\ fwdCall = NoCall
  /\ linCall = NoCall

\* GPTBigCode::load(vb, cfg) on the root of the store.
Load ==
  /\ loaded = NoCall
  /\ loaded' = GPTBigCodeLoad(store, "", cfg)
  /\ UNCHANGED <<cfg, store, lnCall, fwdCall, linCall>>

Next == Load

Spec == Init /\ [][Next]_vars

\* --- C9 ---
Present(st, path, shape) == path \in DOMAIN st /\ st[path].shape = shape
PathError(st, path) ==
  [kind |-> IF path \in DOMAIN st THEN "ShapeMismatch" ELSE "MissingParameter",
   path |-> path]
PrimaryOk(st, u) ==
  Present(st, u.path \o ".weight", u.shape) /\ Present(st, u.path \o ".bias", u.shape)
FallbackOk(st, u) ==
  Present(st, u.path \o ".gamma", u.shape) /\ Present(st, u.path \o ".beta", u.shape)
UnitStops(st, u) ==
  IF u.kind = "get" THEN ~Present(st, u.path, u.shape)
  ELSE IF u.kind = "norm" THEN ~PrimaryOk(st, u) /\ ~FallbackOk(st, u)
  ELSE TRUE
UnitError(st, u) ==
  IF u.kind = "get" THEN PathError(st, u.path)
  ELSE IF Present(st, u.path \o ".weight", u.shape)
         THEN PathError(st, u.path \o ".bias")
         ELSE PathError(st, u.path \o ".weight")
UnitFetches(st, u) ==
  IF u.kind = "get" THEN <<u.path>>
  ELSE IF u.kind = "panic" THEN <<>>
  ELSE <<u.path \o ".weight", u.path \o ".bias">>
         \o (IF PrimaryOk(st, u) THEN <<>>
             ELSE <<u.path \o ".gamma", u.path \o ".beta">>)
RECURSIVE FetchesUpTo(_, _, _)
FetchesUpTo(st, plan, n) ==
  IF n = 0 THEN <<>> ELSE FetchesUpTo(st, plan, n - 1) \o UnitFetches(st, plan[n])
\* The first unit of the plan at which loading stops, 0 when none does.
FirstStop(st, plan) ==
  IF \E k \in DOMAIN plan : UnitStops(st, plan[k])
    THEN CHOOSE k \in DOMAIN plan :
           /\ UnitStops(st, plan[k])
           /\ \A j \in 1..(k - 1) : ~UnitStops(st, plan[j])
    ELSE 0
LoadedPaths == [k \in DOMAIN loaded.log |-> loaded.log[k].path]
NormFrom(st, norm, prefix) ==
  IF PrimaryOk(st, NormUnit(prefix, cfg.hidden_size))
    THEN norm.weight = st[prefix \o ".weight"] /\ norm.bias = st[prefix \o ".bias"]
    ELSE norm.weight = st[prefix \o ".gamma"] /\ norm.bias = st[prefix \o ".beta"]
LinearFrom(st, lin, prefix) ==
  lin.weight = st[prefix \o ".weight"] /\ lin.bias = Some(st[prefix \o ".bias"])
BlockFrom(st, b, h) ==
  /\ NormFrom(st, b.ln_1, h \o ".ln_1")
  /\ LinearFrom(st, b.attn.c_attn, h \o ".attn.c_attn")
  /\ LinearFrom(st, b.attn.c_proj, h \o ".attn.c_proj")
  /\ NormFrom(st, b.ln_2, h \o ".ln_2")
  /\ LinearFrom(st, b.mlp.c_fc, h \o ".mlp.c_fc")
  /\ LinearFrom(st, b.mlp.c_proj, h \o ".mlp.c_proj")

\* C9: GPTBigCode::load fetches wte, wpe, the blocks h.0 .. h.(n-1) in layer
\* order, ln_f and then lm_head (weight only).  When a fetch fails (for a
\* normalization layer: both namings fail) load returns that first error and
\* fetches nothing after it, and no model is built; when every fetch succeeds
\* the model holds exactly num_hidden_layers blocks, block i read from h.i, and
\* an output head without bias.
C9_AllOrNothing ==
  loaded # NoCall =>
    LET plan == Plan(cfg)
        k == FirstStop(store, plan)
    IN IF k = 0
         THEN /\ loaded.tag = "Ok"
              /\ LoadedPaths = FetchesUpTo(store, plan, Len(plan))
              /\ Len(loaded.val.blocks) = cfg.num_hidden_layers
              /\ \A i \in 1..cfg.num_hidden_layers :
                   BlockFrom(store, loaded.val.blocks[i], "h." \o ToString(i - 1))
              /\ loaded.val.wte.embeddings = store["wte.weight"]
              /\ loaded.val.wpe.embeddings = store["wpe.weight"]
              /\ NormFrom(store, loaded.val.ln_f, "ln_f")
              /\ loaded.val.lm_head = LinearNew(store["lm_head.weight"], None)
         ELSE /\ LoadedPaths = FetchesUpTo(store, plan, k)
              /\ IF plan[k].kind = "panic"
                   THEN loaded.tag = "Panic"
                   ELSE loaded.tag = "Err" /\ loaded.val = UnitError(store, plan[k])

\* Two fetches would fail: the second block's c_proj weight is absent and
\* lm_head is absent; load stops at the first and never asks for ln_f.
C9_Witness ==
  /\ loaded # NoCall
  /\ cfg.num_hidden_layers = 2
  /\ "lm_head.weight" \notin DOMAIN store
  /\ loaded.tag = "Err"
  /\ loaded.val = [kind |-> "MissingParameter", path |-> "h.1.attn.c_proj.weight"]
  /\ \A k \in DOMAIN loaded.log : loaded.log[k].path # "ln_f.weight"

\* --- C3 ---
\* C3: for every configuration the loader accepts, Attention::load requests
\* c_attn with input width hidden_size and output width hidden_size + 2 * kv_dim,
\* kv_dim = hidden_size / num_attention_heads under multi_query and
\* kv_dim = hidden_size otherwise.
C3_PackedWidth ==
  (loaded # NoCall /\ loaded.tag = "Ok") =>
    \A k \in DOMAIN loaded.log : \A i \in 0..(cfg.num_hidden_layers - 1) :
      loaded.log[k].path = "h." \o ToString(i) \o ".attn.c_attn.weight" =>
        loaded.log[k].shape =
          <<cfg.hidden_size
              + 2 * (IF cfg.multi_query
                       THEN cfg.hidden_size \div cfg.num_attention_heads
                       ELSE cfg.hidden_size),
            cfg.hidden_size>>

\* --- C4 ---
\* C4: loading with a hidden_size that num_attention_heads does not divide
\* fails with InvalidConfig, whatever the store holds; no model is built.
C4_InvalidConfigRejected ==
  (/\ loaded # NoCall
   /\ cfg.num_attention_heads # 0
   /\ cfg.hidden_size % cfg.num_attention_heads # 0)
  => loaded.tag = "Err" /\ loaded.val.kind = "InvalidConfig"

\* =========================================================================
\* Forward pass.  A tensor computed at forward time is [shape, expr]: its
\* dimensions and the expression that produced it; an index tensor also has
\* its data.  Tensor operations return Ok or Err("ComputationError").
\* =========================================================================
T(shape, expr) == [shape |-> shape, expr |-> expr]
ComputationError(op) == [kind |-> "ComputationError", path |-> op]
Last(seq) == seq[Len(seq)]
Front(seq) == SubSeq(seq, 1, Len(seq) - 1)

\* input_ids.dims2()
Dims2(t) ==
  IF Len(t.shape) = 2 THEN Ok(t.shape, <<>>) ELSE Err(ComputationError("dims2"), <<>>)

\* Embedding::forward: the rows of the table at the given indexes; an index
\* outside the table is an error of the lookup.
EmbeddingForward(emb, ids) ==
  IF \E r \in DOMAIN ids.data : \E k \in DOMAIN ids.data[r] :
       ids.data[r][k] >= emb.embeddings.shape[1]
    THEN Err(ComputationError("index_select"), <<>>)
    ELSE Ok(T(ids.shape \o <<emb.hidden_size>>,
              "embed(" \o emb.embeddings.val \o "," \o ids.expr \o ")"), <<>>)

\* &a + &b
TensorAdd(a, b) ==
  IF a.shape # b.shape THEN Err(ComputationError("add"), <<>>)
  ELSE Ok(T(a.shape, "(" \o a.expr \o "+" \o b.expr \o ")"), <<>>)

\* LayerNorm::forward
LayerNormForward(ln, x) ==
  IF Len(x.shape) = 0 \/ <<Last(x.shape)>> # ln.weight.shape
    THEN Err(ComputationError("layer_norm"), <<>>)
    ELSE Ok(T(x.shape, "norm(" \o ln.weight.val \o "," \o x.expr \o ")"), <<>>)

\* candle_nn Linear::forward: x . W^T (+ bias), W of shape (out, in).
NnLinearForward(lin, x) ==
  IF Len(x.shape) < 2 \/ Last(x.shape) # lin.weight.shape[2]
    THEN Err(ComputationError("matmul"), <<>>)
    ELSE Ok(T(Front(x.shape) \o <<lin.weight.shape[1]>>,
              "linear(" \o lin.weight.val \o "," \o x.expr \o ")"), <<>>)

\* Tensor::gelu
Gelu(x) == Ok(T(x.shape, "gelu(" \o x.expr \o ")"), <<>>)

\* Tensor::squeeze(dim), dim counted from 0
Squeeze(x, dim) ==
  IF dim >= Len(x.shape) THEN Err(ComputationError("squeeze"), <<>>)
  ELSE IF x.shape[dim + 1] # 1 THEN Ok(x, <<>>)
  ELSE Ok(T(SubSeq(x.shape, 1, dim) \o SubSeq(x.shape, dim + 2, Len(x.shape)),
            x.expr), <<>>)

\* Attention::forward: todo!()
AttentionForward(attn, x) == Panic("not yet implemented", <<>>)

\* Mlp::forward
MlpForward(mlp, x) ==
  Try(NnLinearForward(mlp.c_fc, x), LAMBDA fc :
  Try(Gelu(fc), LAMBDA act :
  NnLinearForward(mlp.c_proj, act)))

\* Block::forward
BlockForward(block, x) ==
  Try(LayerNormForward(block.ln_1, x), LAMBDA x1 :
  Try(AttentionForward(block.attn, x1), LAMBDA attn_outputs :
  Try(TensorAdd(attn_outputs, x), LAMBDA x2 :
  Try(LayerNormForward(block.ln_2, x2), LAMBDA x3 :
  Try(MlpForward(block.mlp, x3), LAMBDA x4 :
  TensorAdd(x4, x2))))))

\* for block in self.blocks.iter_mut() { hidden_states = block.forward(..)? }
RECURSIVE BlocksForward(_, _, _)
BlocksForward(blocks, i, hidden_states) ==
  IF i > Len(blocks) THEN Ok(hidden_states, <<>>)
  ELSE Try(BlockForward(blocks[i], hidden_states), LAMBDA h :
         BlocksForward(blocks, i + 1, h))

\* hidden_states.i((.., seq_len - 1, seq_len)): every index of dimension 0,
\* index seq_len - 1 of dimension 1, index seq_len of dimension 2; the two
\* scalar indexes remove their dimensions.
IndexLast(x, seq_len) ==
  IF Len(x.shape) < 3 \/ seq_len - 1 >= x.shape[2] \/ seq_len >= x.shape[3]
    THEN Err(ComputationError("index"), <<>>)
    ELSE Ok(T(<<x.shape[1]>> \o SubSeq(x.shape, 4, Len(x.shape)),
              x.expr \o "[..," \o ToString(seq_len - 1) \o "," \o ToString(seq_len) \o "]"),
            <<>>)

\* seq_len - 1 on usize with seq_len = 0: a panic where overflow is checked,
\* the largest usize (an index past every dimension) where it wraps.
Builds == {"overflow-checks", "wrapping"}

\* seq_len - 1 where it is first evaluated.
SeqLenMinusOne(x, seq_len, build) ==
  IF seq_len = 0
    THEN IF build = "overflow-checks"
           THEN Panic("attempt to subtract with overflow", <<>>)
           ELSE Err(ComputationError("index"), <<>>)
    ELSE IndexLast(x, seq_len)

\* GPTBigCode::forward
GPTBigCodeForward(m, input_ids, position_ids, build) ==
  Try(Dims2(input_ids), LAMBDA dims :
  Try(EmbeddingForward(m.wte, input_ids), LAMBDA input_embeds :
  Try(EmbeddingForward(m.wpe, position_ids), LAMBDA position_embeds :
  Try(TensorAdd(input_embeds, position_embeds), LAMBDA sum :
  Try(BlocksForward(m.blocks, 1, sum), LAMBDA stacked :
  Try(LayerNormForward(m.ln_f, stacked), LAMBDA normed :
  Try(SeqLenMinusOne(normed, dims[2], build), LAMBDA last :
  Try(NnLinearForward(m.lm_head, last), LAMBDA head :
  Squeeze(head, 1)))))))))

\* =========================================================================
\* Specification SpecFwd: a model loaded from a complete checkpoint, then
\* forward passes on it.
\* =========================================================================
InitFwd ==
  /\ cfg \in Configs
  /\ \E naming \in Namings : store = FullStore(cfg, naming)
  /\ loaded = GPTBigCodeLoad(store, "", cfg)
  /\ loaded.tag = "Ok"
  /\ lnCall = NoCall
  /\ fwdCall = NoCall
  /\ linCall = NoCall

\* Index tensors of shape (b, s): token ids are 0 or vocab_size (one past the
\* table), position ids are all 0 or all max_position_embeddings.
TokenIds(b, s) ==
  {[shape |-> <<b, s>>, data |-> d, expr |-> "input_ids"] :
     d \in [1..b -> [1..s -> {0, cfg.vocab_size}]]}
PositionIds(b, s) ==
  {[shape |-> <<b, s>>, data |-> [r \in 1..b |-> [k \in 1..s |-> p]],
    expr |-> "position_ids"] : p \in {0, cfg.max_position_embeddings}}
Hidden(b, s) == T(<<b, s, cfg.hidden_size>>, "x")

Forward ==
  /\ loaded.tag = "Ok"
  /\ \E b \in 1..MaxBatch, s \in 0..MaxSeq, build \in Builds :
       \E input_ids \in TokenIds(b, s), position_ids \in PositionIds(b, s) :
         fwdCall' = [op |-> "GPTBigCode::forward", block |-> 0,
                     in |-> input_ids, pos |-> position_ids,
                     out |-> GPTBigCodeForward(loaded.val, input_ids, position_ids,
                                               build)]
  /\ UNCHANGED <<cfg, store, loaded, lnCall, linCall>>

BlockForwardCall ==
  /\ loaded.tag = "Ok"
  /\ \E i \in DOMAIN loaded.val.blocks, b \in 1..MaxBatch, s \in 1..MaxSeq :
       fwdCall' = [op |-> "Block::forward", block |-> i,
                   in |-> Hidden(b, s), pos |-> None,
                   out |-> BlockForward(loaded.val.blocks[i], Hidden(b, s))]
  /\ UNCHANGED <<cfg, store, loaded, lnCall, linCall>>

AttentionForwardCall ==
  /\ loaded.tag = "Ok"
  /\ \E i \in DOMAIN loaded.val.blocks, b \in 1..MaxBatch, s \in 1..MaxSeq :
       fwdCall' = [op |-> "Attention::forward", block |-> i,
                   in |-> Hidden(b, s), pos |-> None,
                   out |-> AttentionForward(loaded.val.blocks[i].attn, Hidden(b, s))]
  /\ UNCHANGED <<cfg, store, loaded, lnCall, linCall>>

NextFwd == Forward \/ BlockForwardCall \/ AttentionForwardCall

SpecFwd == InitFwd /\ [][NextFwd]_vars

IsCall(op) == fwdCall # NoCall /\ fwdCall.op = op
IdsInRange(ids, n) ==
  \A r \in DOMAIN ids.data : \A k \in DOMAIN ids.data[r] : ids.data[r][k] < n

\* --- C5 ---
\* C5: GPTBigCode::forward on token and position ids of shape (batch, sequence),
\* batch >= 1, sequence >= 1, every id in range, returns logits of shape
\* (batch, vocab_size).
C5_LogitsShape ==
  (/\ IsCall("GPTBigCode::forward")
   /\ fwdCall.in.shape[1] >= 1 /\ fwdCall.in.shape[2] >= 1
   /\ IdsInRange(fwdCall.in, cfg.vocab_size)
   /\ IdsInRange(fwdCall.pos, cfg.max_position_embeddings))
  => /\ fwdCall.out.tag = "Ok"
     /\ fwdCall.out.val.shape = <<fwdCall.in.shape[1], cfg.vocab_size>>

\* --- C6 ---
\* C6: GPTBigCode::forward on a sequence of length 0, or on a token id outside
\* [0, vocab_size), returns the error InvalidInput: no logits, no other abort.
C6_InvalidInput ==
  (/\ IsCall("GPTBigCode::forward")
   /\ \/ fwdCall.in.shape[2] = 0
      \/ ~IdsInRange(fwdCall.in, cfg.vocab_size))
  => /\ fwdCall.out.tag = "Err"
     /\ fwdCall.out.val.kind = "InvalidInput"

\* --- C7 ---
\* C7: Attention::forward on an input of shape (batch, sequence, hidden) yields
\* an output of that shape whose position i is a function of the input's
\* positions <= i alone.  (Of the two parts only the first can be said of one
\* call; the second compares the outputs of two calls.)
C7_AttentionOutput ==
  IsCall("Attention::forward")
  => /\ fwdCall.out.tag = "Ok"
     /\ fwdCall.out.val.shape = fwdCall.in.shape

\* --- C8 ---
\* C8: Block::forward returns (x + attention(norm_1(x)))
\* + mlp(norm_2(x + attention(norm_1(x)))): each sub-layer's output is added to
\* the value that went into its normalization.
C8_ResidualComposition ==
  IsCall("Block::forward")
  => LET block == loaded.val.blocks[fwdCall.block]
         x == fwdCall.in
         n1 == LayerNormForward(block.ln_1, x).val
         a == T(x.shape, "attention(" \o n1.expr \o ")")
         r == TensorAdd(a, x).val
         n2 == LayerNormForward(block.ln_2, r).val
         f == MlpForward(block.mlp, n2).val
     IN /\ fwdCall.out.tag = "Ok"
        /\ fwdCall.out.val = TensorAdd(f, r).val

\* =========================================================================
\* Specification SpecLinear: the Linear layers of nn/layers/linear.rs on
\* matrices of small integers (a matrix is the sequence of its rows).
\* =========================================================================
Entries == 0..MaxEntry
Matrices ==
  UNION {[1..m -> [1..n -> Entries]] : m \in 1..MaxDim, n \in 1..MaxDim}
Vectors == UNION {[1..n -> Entries] : n \in 1..MaxDim}

Rows(a) == Len(a)
Cols(a) == Len(a[1])
Dot(a, b, i, j) == LET sumTo[k \in 0..Cols(a)] ==
                         IF k = 0 THEN 0 ELSE sumTo[k - 1] + a[i][k] * b[k][j]
                   IN sumTo[Cols(a)]
MatProduct(a, b) == [i \in 1..Rows(a) |-> [j \in 1..Cols(b) |-> Dot(a, b, i, j)]]

\* Tensor::matmul: the product, an error when the inner dimensions differ.
Matmul(a, b) ==
  IF Cols(a) # Rows(b) THEN Err(ComputationError("matmul"), <<>>)
  ELSE Ok(MatProduct(a, b), <<>>)

\* Tensor::t
Transpose(a) == Ok([j \in 1..Cols(a) |-> [i \in 1..Rows(a) |-> a[i][j]]], <<>>)

\* Linear::new
LayerLinearNew(weight, bias) == [weight |-> weight, bias |-> bias]

\* Linear::forward: tensor.matmul(&self.weight); the bias is not added.
LayerLinearForward(self, tensor) == Matmul(tensor, self.weight)

\* LinearT::forward: tensor.matmul(&self.weight.t()?)
LayerLinearTForward(self, tensor) ==
  Try(Transpose(self.weight), LAMBDA wt : Matmul(tensor, wt))

\* UnbiasedLinear::new keeps weight.t().unwrap()
UnbiasedLinearNew(weight) == [weight |-> Transpose(weight).val]

\* UnbiasedLinear::forward
UnbiasedLinearForward(self, tensor) == Matmul(tensor, self.weight)

\* A layer built by new(weight, bias); forward is then called on it.
InitLinear ==
  /\ cfg = None
  /\ store = <<>>
  /\ \E w \in Matrices, b \in Vectors : loaded = LayerLinearNew(w, b)
  /\ lnCall = NoCall
  /\ fwdCall = NoCall
  /\ linCall = NoCall

LinearForwardCall ==
  /\ \E x \in Matrices :
       linCall' = [op |-> "Linear::forward", x |-> x,
                   out |-> LayerLinearForward(loaded, x)]
  /\ UNCHANGED <<cfg, store, loaded, lnCall, fwdCall>>

LinearTForwardCall ==
  /\ \E x \in Matrices :
       linCall' = [op |-> "LinearT::forward", x |-> x,
                   out |-> LayerLinearTForward(loaded, x)]
  /\ UNCHANGED <<cfg, store, loaded, lnCall, fwdCall>>

UnbiasedLinearForwardCall ==
  /\ \E x \in Matrices :
       linCall' = [op |-> "UnbiasedLinear::forward", x |-> x,
                   out |-> UnbiasedLinearForward(UnbiasedLinearNew(loaded.weight), x)]
  /\ UNCHANGED <<cfg, store, loaded, lnCall, fwdCall>>

NextLinear == LinearForwardCall \/ LinearTForwardCall \/ UnbiasedLinearForwardCall

SpecLinear == InitLinear /\ [][NextLinear]_vars

\* --- C10 ---
AddBias(m, b) == [i \in 1..Rows(m) |-> [j \in 1..Cols(m) |-> m[i][j] + b[j]]]

\* C10: Linear::forward yields matmul(x, W) + b, the bias added to every row of
\* the product, and LinearT::forward yields matmul(x, W.T) + b, for every x, W
\* and b of compatible shapes.
C10_LinearAddsBias ==
  linCall # NoCall =>
    LET x == linCall.x
        w == loaded.weight
        b == loaded.bias
    IN /\ (/\ linCall.op = "Linear::forward"
           /\ Cols(x) = Rows(w) /\ Len(b) = Cols(w))
          => linCall.out = Ok(AddBias(MatProduct(x, w), b), <<>>)
       /\ (/\ linCall.op = "LinearT::forward"
           /\ Cols(x) = Cols(w) /\ Len(b) = Rows(w))
          => linCall.out = Ok(AddBias(MatProduct(x, Transpose(w).val), b), <<>>)

====
